---------------------------- MODULE Spec2Model ----------------------------
(***************************************************************************)
(* A model of the art-viewer repository: the DZI converter                 *)
(* (convert_to_dzi.py), the thumbnail utilities (thumb_utils.py) and the   *)
(* gallery server (serve.py).                                              *)
(*                                                                         *)
(* Strings are sequences of characters; a character is a one-character     *)
(* string, and the two tokens "U+00C9" and "U+00E9" stand for the          *)
(* non-ASCII letters LATIN CAPITAL/SMALL LETTER E WITH ACUTE.  The token   *)
(* "$SCRIPT_DIR" stands for the absolute path of the directory that holds  *)
(* the three scripts (Path(__file__).parent in each of them).              *)
(***************************************************************************)
EXTENDS Naturals, Sequences, FiniteSets

VARIABLES
    hasPyvips,  \* HAS_PYVIPS: whether `import pyvips` succeeded
    srcFiles,   \* the source images that exist (outside the script directory)
    outDirs,    \* $SCRIPT_DIR/<slug>: what the converter writes
    store,      \* $SCRIPT_DIR/.artworks.json: the converter's metadata file
    artRoot,    \* $SCRIPT_DIR/Artworks: absent, a directory or a regular file
    artDirs,    \* $SCRIPT_DIR/Artworks/<name>: what the server scans
    artStore,   \* $SCRIPT_DIR/Artworks/.artworks.json: what the server reads
    run,        \* the last converter invocation: arguments, slug, exit status
    resp,       \* the last answer of the server or of thumb_utils
    procs,      \* concurrent save_artwork_metadata calls: position and locals
    round,      \* how many pairs of concurrent calls have been started
    stemIn,     \* slug generator: the stem handed to it
    slugOut     \* slug generator: the slug it returned

vars == <<hasPyvips, srcFiles, outDirs, store, artRoot, artDirs, artStore,
          run, resp, procs, round, stemIn, slugOut>>

(***************************************************************************)
(* Characters                                                              *)
(***************************************************************************)
AsciiUpper == <<"A","B","C","D","E","F","G","H","I","J","K","L","M",
                "N","O","P","Q","R","S","T","U","V","W","X","Y","Z">>
AsciiLower == <<"a","b","c","d","e","f","g","h","i","j","k","l","m",
                "n","o","p","q","r","s","t","u","v","w","x","y","z">>
AsciiDigit == <<"0","1","2","3","4","5","6","7","8","9">>

\* The modelled characters in code point order (what str comparison uses).
CodeOrder == <<" ", "!", "$SCRIPT_DIR", "-", ".", "/">> \o AsciiDigit \o <<"?">>
             \o AsciiUpper \o <<"_">> \o AsciiLower \o <<"U+00C9", "U+00E9">>

Range(s) == {s[i] : i \in DOMAIN s}

\* ord(c), as far as comparisons go: the place of c in CodeOrder
OrdTable ==
    [c \in Range(CodeOrder) |-> CHOOSE i \in DOMAIN CodeOrder : CodeOrder[i] = c]

Ord(c) == OrdTable[c]

WordChars == Range(AsciiUpper) \cup Range(AsciiLower) \cup Range(AsciiDigit)
                 \cup {"_", "U+00C9", "U+00E9"}

\* \w of a str pattern: alphanumeric in Unicode, or the underscore.
IsWord(c) == c \in WordChars

\* \s
IsSpace(c) == c = " "

\* str.lower() on one character
LowerTable ==
    [c \in Range(AsciiUpper) |->
        AsciiLower[CHOOSE i \in DOMAIN AsciiUpper : AsciiUpper[i] = c]]

LowerChar(c) ==
    IF c \in DOMAIN LowerTable THEN LowerTable[c]
    ELSE IF c = "U+00C9" THEN "U+00E9" ELSE c

LowerStr(s) == [i \in DOMAIN s |-> LowerChar(s[i])]

\* s < t for two strings (lexicographic by code point)
RECURSIVE StrLess(_, _)
StrLess(s, t) ==
    IF t = <<>> THEN FALSE
    ELSE IF s = <<>> THEN TRUE
    ELSE IF Head(s) = Head(t) THEN StrLess(Tail(s), Tail(t))
    ELSE Ord(Head(s)) < Ord(Head(t))

(***************************************************************************)
(* Slug generator: convert_to_dzi.py, slugify and its caller's fallback    *)
(***************************************************************************)
\* re.sub(r'[^\w\s-]', '', name)
RemoveSpecial(name) ==
    SelectSeq(name, LAMBDA c : IsWord(c) \/ IsSpace(c) \/ c = "-")

IsSep(c) == IsSpace(c) \/ c = "-"

RECURSIVE DropSeps(_)
DropSeps(s) ==
    IF s # <<>> /\ IsSep(Head(s)) THEN DropSeps(Tail(s)) ELSE s

\* re.sub(r'[-\s]+', '-', slug): each maximal run becomes one hyphen
RECURSIVE CollapseRuns(_)
CollapseRuns(s) ==
    IF s = <<>> THEN <<>>
    ELSE IF IsSep(Head(s)) THEN <<"-">> \o CollapseRuns(DropSeps(Tail(s)))
    ELSE <<Head(s)>> \o CollapseRuns(Tail(s))

RECURSIVE LStripHyphen(_)
LStripHyphen(s) ==
    IF s # <<>> /\ Head(s) = "-" THEN LStripHyphen(Tail(s)) ELSE s

RECURSIVE RStripHyphen(_)
RStripHyphen(s) ==
    IF s # <<>> /\ s[Len(s)] = "-"
    THEN RStripHyphen(SubSeq(s, 1, Len(s) - 1))
    ELSE s

\* .strip('-')
StripHyphens(s) == RStripHyphen(LStripHyphen(s))

\* slugify without the final strip('-')
slugify_unstripped(name) ==
    LowerStr(CollapseRuns(RemoveSpecial(name)))

slugify(name) ==
    StripHyphens(LowerStr(CollapseRuns(RemoveSpecial(name))))

FallbackSlug == <<"a","r","t","w","o","r","k">>

\* clean_slug as convert_to_dzi computes it
clean_slug(original_name) ==
    IF slugify(original_name) = <<>> THEN FallbackSlug
    ELSE slugify(original_name)

(***************************************************************************)
(* Path strings                                                            *)
(***************************************************************************)
DziSuffix == <<".","d","z","i">>

\* f'{slug}/{slug}.dzi'
RelDziPath(s) == s \o <<"/">> \o s \o DziSuffix

\* str(script_dir / slug / f'{slug}.dzi')
AbsDziPath(s) == <<"$SCRIPT_DIR", "/">> \o RelDziPath(s)

(***************************************************************************)
(* The metadata file.  A file is [kind, recs]: kind says whether it exists *)
(* and what json.loads makes of its text, recs is the mapping when the     *)
(* text is a JSON object.  A value of the mapping is [t, fields]: a JSON   *)
(* object with those fields (t = "dict") or any other JSON value.          *)
(***************************************************************************)
NoRecs == [k \in {} |-> k]

AbsentFile == [kind |-> "absent", recs |-> NoRecs]

With(m, k, v) == [x \in DOMAIN m \cup {k} |-> IF x = k THEN v ELSE m[x]]

\* The value a save stores under the slug.
artwork_record(s, original_name) ==
    [t |-> "dict",
     fields |-> [original_name |-> original_name,
                 dzi_path |-> RelDziPath(s),
                 dzi_file |-> AbsDziPath(s)]]

\* json.loads(metadata_file.read_text()) raises: the file cannot be read or
\* decoded, or its text is not JSON.
LoadRaises(file) == file.kind \in {"unreadable", "invalid"}

\* The value `metadata` holds after the guarded load of save_artwork_metadata:
\* {} when the file is absent or the load raised, the parsed value otherwise.
load_metadata(file) ==
    IF file.kind = "absent" \/ LoadRaises(file)
    THEN [t |-> "dict", m |-> NoRecs]
    ELSE [t |-> IF file.kind = "object" THEN "dict" ELSE file.kind,
          m |-> file.recs]

\* A merge that starts from an empty mapping instead of the loaded one.
merge_record_dropping_others(md, s, original_name) ==
    [raised |-> md.t # "dict",
     m |-> With(NoRecs, s, artwork_record(s, original_name))]

\* metadata[slug] = {...}: item assignment, which raises TypeError on a list,
\* a number, a string or None.
merge_record(md, s, original_name) ==
    [raised |-> md.t # "dict",
     m |-> IF md.t = "dict" THEN With(md.m, s, artwork_record(s, original_name))
           ELSE md.m]

\* metadata_file.write_text(json.dumps(metadata, indent=2)); writeOk is
\* whether the file could be opened for writing.
dump_metadata(file, merged, writeOk) ==
    IF merged.raised \/ ~writeOk
    THEN [raised |-> TRUE, file |-> file]
    ELSE [raised |-> FALSE, file |-> [kind |-> "object", recs |-> merged.m]]

save_artwork_metadata(file, s, original_name, writeOk) ==
    dump_metadata(file, merge_record(load_metadata(file), s, original_name),
                  writeOk)

(***************************************************************************)
(* The converter: convert_to_dzi.py                                        *)
(***************************************************************************)
ImageSuffixes == {<<".","j","p","g">>, <<".","j","p","e","g">>,
                  <<".","p","n","g">>}

AbsentDir == [kind |-> "absent", dzi |-> FALSE, tiles |-> FALSE]

\* dzi_dir.mkdir(exist_ok=True) on an entry that is absent or a directory
mkdir(entry) ==
    IF entry.kind = "absent" THEN [entry EXCEPT !.kind = "dir"] ELSE entry

\* What the external tiler left on disk: it adds the outputs it wrote.
AfterTool(entry, tool) ==
    [entry EXCEPT !.dzi = @ \/ tool.dzi, !.tiles = @ \/ tool.tiles]

\* convert_with_pyvips: dzsave, then the two existence checks
convert_with_pyvips(entry, tool) ==
    LET e == AfterTool(entry, tool)
    IN  [raised |-> ~tool.ok \/ ~e.dzi \/ ~e.tiles, entry |-> e]

\* convert_with_cli: subprocess.run(..., check=True) and nothing after it
convert_with_cli(entry, tool) ==
    [raised |-> ~tool.ok, entry |-> AfterTool(entry, tool)]

\* The cleanup test without the suffix check.
should_unlink_any_suffix(cleanup, suffix) == cleanup

\* cleanup and image_path.suffix.lower() in ['.jpg', '.jpeg', '.png']
should_unlink(cleanup, suffix) ==
    cleanup /\ LowerStr(suffix) \in ImageSuffixes

\* One invocation of the script on `path` (a source file [stem, suffix]):
\* the exit status and the files it leaves.  `tool` is what the external
\* tiler did, `io` names the file operation that failed, if any.
convert_to_dzi(path, cleanup, tool, io) ==
    LET original_name == path.stem
        s == clean_slug(original_name)
        unchanged == [exit |-> 1, slug |-> s, src |-> srcFiles,
                      out |-> outDirs, st |-> store]
    IN  IF path \notin srcFiles THEN unchanged
        ELSE IF outDirs[s].kind = "file" THEN unchanged
        ELSE
          LET t == IF hasPyvips
                   THEN convert_with_pyvips(mkdir(outDirs[s]), tool)
                   ELSE convert_with_cli(mkdir(outDirs[s]), tool)
              out1 == [outDirs EXCEPT ![s] = t.entry]
              md == save_artwork_metadata(store, s, original_name,
                                          io # "write")
          IN  IF t.raised \/ md.raised
              THEN [unchanged EXCEPT !.out = out1]
              ELSE IF should_unlink(cleanup, path.suffix)
              THEN IF io = "unlink"
                   THEN [unchanged EXCEPT !.out = out1, !.st = md.file]
                   ELSE [exit |-> 0, slug |-> s, src |-> srcFiles \ {path},
                         out |-> out1, st |-> md.file]
              ELSE [exit |-> 0, slug |-> s, src |-> srcFiles,
                    out |-> out1, st |-> md.file]

(***************************************************************************)
(* The thumbnail utilities: thumb_utils.py                                 *)
(*                                                                         *)
(* An entry of the artworks root is [kind, dzi, tile, thumb]: kind is      *)
(* "absent", "dir" or "file"; dzi says whether <name>/<name>.dzi exists;   *)
(* tile is "nodir" (no <name>_files/0), "none" (the directory holds no     *)
(* 0_0 tile), "jpg" or "jpeg"; thumb is 0 when .thumb-200.jpg is absent    *)
(* and otherwise the number of times the file has been written (its        *)
(* modification stamp).                                                    *)
(***************************************************************************)
ArtworksDirName == <<"A","r","t","w","o","r","k","s">>

AbsentEntry == [kind |-> "absent", dzi |-> FALSE, tile |-> "nodir", thumb |-> 0]

\* artworks_dir / name as the file system resolves it
Entry(name) ==
    IF artRoot = "dir" /\ name \in DOMAIN artDirs THEN artDirs[name]
    ELSE AbsentEntry

\* str(artworks_dir / artwork_slug / f'.thumb-{size}.jpg') for size = 200
ThumbPath(s) ==
    <<"$SCRIPT_DIR", "/">> \o ArtworksDirName \o <<"/">> \o s
        \o <<"/", ".", "t", "h", "u", "m", "b", "-", "2", "0", "0",
             ".", "j", "p", "g">>

None == [some |-> FALSE, path |-> <<>>]

Some(p) == [some |-> TRUE, path |-> p]

\* The early return of get_or_generate_thumbnail
HasCachedThumb(entry) == entry.kind = "dir" /\ entry.thumb > 0

\* Whether a level-0 tile 0_0.jpg or 0_0.jpeg is there to be resized
HasLevel0Tile(entry) == entry.kind = "dir" /\ entry.tile \in {"jpg", "jpeg"}

\* get_or_generate_thumbnail without the early return: it resizes again.
thumbnail_always_regenerated(s, gen) ==
    LET e == Entry(s)
    IN  IF ~HasLevel0Tile(e) THEN [ret |-> None, entry |-> e]
        ELSE [ret |-> IF gen.ok THEN Some(ThumbPath(s)) ELSE None,
              entry |-> IF gen.wrote THEN [e EXCEPT !.thumb = @ + 1] ELSE e]

\* get_or_generate_thumbnail without the level-0 checks.
thumbnail_without_tile_check(s, gen) ==
    LET e == Entry(s)
    IN  IF HasCachedThumb(e) THEN [ret |-> Some(ThumbPath(s)), entry |-> e]
        ELSE [ret |-> IF gen.ok THEN Some(ThumbPath(s)) ELSE None,
              entry |-> IF gen.wrote /\ e.kind = "dir"
                        THEN [e EXCEPT !.thumb = @ + 1] ELSE e]

\* get_or_generate_thumbnail(artwork_slug, artworks_dir): what it returns
\* and the entry it leaves.  gen is what the resize did: ok (it returned
\* without raising) and wrote (it left a file at the thumbnail path).
get_or_generate_thumbnail(s, gen) ==
    LET e == Entry(s)
    IN  IF HasCachedThumb(e) THEN [ret |-> Some(ThumbPath(s)), entry |-> e]
        ELSE IF ~HasLevel0Tile(e) THEN [ret |-> None, entry |-> e]
        ELSE [ret |-> IF gen.ok THEN Some(ThumbPath(s)) ELSE None,
              entry |-> IF gen.wrote THEN [e EXCEPT !.thumb = @ + 1] ELSE e]

\* has_thumbnail(artwork_slug, artworks_dir)
has_thumbnail(s) == HasCachedThumb(Entry(s))

\* The artworks root after a call left `entry` at name s.
PutEntry(s, entry) ==
    IF artRoot = "dir" /\ s \in DOMAIN artDirs
    THEN [artDirs EXCEPT ![s] = entry]
    ELSE artDirs

(***************************************************************************)
(* The gallery server: serve.py                                            *)
(***************************************************************************)
\* sorted(...) of a set of names
RECURSIVE SortNames(_)
SortNames(S) ==
    IF S = {} THEN <<>>
    ELSE LET least == CHOOSE x \in S : \A y \in S \ {x} : StrLess(x, y)
         IN  <<least>> \o SortNames(S \ {least})

\* artworks_dir.iterdir(): the names that exist under the root
ListedNames == {n \in DOMAIN artDirs : artDirs[n].kind # "absent"}

\* The display name send_artworks gives a listed directory: the record's
\* original_name when the metadata file loads, is a mapping, holds the name
\* and maps it to an object with that field; the directory name otherwise.
display_name(file, n) ==
    IF file.kind = "absent" \/ LoadRaises(file) THEN n
    ELSE IF file.kind # "object" THEN n
    ELSE IF n \notin DOMAIN file.recs THEN n
    ELSE IF file.recs[n].t # "dict" THEN n
    ELSE IF "original_name" \notin DOMAIN file.recs[n].fields THEN n
    ELSE file.recs[n].fields.original_name

\* f'Artworks/{item.name}/{item.name}.dzi'
artwork_path(n) == ArtworksDirName \o <<"/">> \o RelDziPath(n)

artwork_entry(n) ==
    [name |-> display_name(artStore, n),
     slug |-> n,
     path |-> artwork_path(n),
     thumbnail |-> <<"/","a","p","i","/","t","h","u","m","b","/">> \o n]

\* The directories the loop keeps, hidden ones included.
listable_with_hidden(n) == artDirs[n].kind = "dir" /\ artDirs[n].dzi

\* The directories the loop of send_artworks keeps
listable(n) ==
    /\ artDirs[n].kind = "dir"
    /\ Head(n) # "."
    /\ artDirs[n].dzi

\* The order of iteration with the sort left out: some order of the names.
iteration_unsorted(S) ==
    LET sorted == SortNames(S)
    IN  [i \in DOMAIN sorted |-> sorted[Len(sorted) + 1 - i]]

\* sorted(artworks_dir.iterdir())
iteration_order(S) == SortNames(S)

\* send_artworks: status 200 and the array, or the exception iterdir raises
\* when the root exists and is not a directory.
send_artworks ==
    IF artRoot = "absent" THEN [raised |-> FALSE, status |-> 200, list |-> <<>>]
    ELSE IF artRoot = "file" THEN [raised |-> TRUE, status |-> 0, list |-> <<>>]
    ELSE LET kept == SelectSeq(iteration_order(ListedNames), listable)
         IN  [raised |-> FALSE, status |-> 200,
              list |-> [i \in DOMAIN kept |-> artwork_entry(kept[i])]]

\* The test both thumbnail handlers make on the generator's return value:
\* thumb_path and Path(thumb_path).exists()
Servable(r) == r.ret.some /\ HasCachedThumb(r.entry)

ThumbError == "thumbnail not available"

\* send_thumbnail(slug): the status, the content type and the JSON error
send_thumbnail(r) ==
    IF Servable(r)
    THEN [status |-> 200, ctype |-> "image/jpeg", err |-> ""]
    ELSE [status |-> 404, ctype |-> "application/json", err |-> ThumbError]

\* do_HEAD on /api/thumb/<slug>: headers only, a bare 404
do_HEAD(r) ==
    IF Servable(r)
    THEN [status |-> 200, ctype |-> "image/jpeg", err |-> ""]
    ELSE [status |-> 404, ctype |-> "", err |-> ""]

(***************************************************************************)
(* Inputs                                                                  *)
(***************************************************************************)
\* The longest stem the slug generator is tried on, beside the two examples.
MaxLen == 4

StemChars == {"A", "b", "7", "_", "-", " ", "?", "U+00C9"}

RECURSIVE StringsUpTo(_, _)
StringsUpTo(chars, n) ==
    IF n = 0 THEN {<<>>}
    ELSE LET shorter == StringsUpTo(chars, n - 1)
         IN  shorter \cup {Append(s, c) : s \in shorter, c \in chars}

QuestionMarks == <<"?", "?", "?">>

MyGreatPainting == <<"M","y"," ","G","r","e","a","t"," ",
                     "P","a","i","n","t","i","n","g","!">>

StemInputs == StringsUpTo(StemChars, MaxLen) \cup {QuestionMarks, MyGreatPainting}

\* Source images the converter is run on: stems "a" and "A" share the slug
\* "a", "?" falls back to "artwork"; ".tif" is not an image suffix of the
\* cleanup test.
Stems == {<<"a">>, <<"A">>, <<"?">>}

Suffixes == {<<".","J","P","G">>, <<".","t","i","f">>}

SrcPaths ==
    {p \in [stem : Stems, suffix : Suffixes] :
        p.suffix = <<".","J","P","G">> \/ p.stem = <<"a">>}

ConvSlugs == {clean_slug(st) : st \in Stems}

\* What the external tiler did: ok (it returned without an error) and the
\* outputs it wrote; a tiler that failed wrote both outputs or neither.
ToolOutcomes ==
    {t \in [ok : BOOLEAN, dzi : BOOLEAN, tiles : BOOLEAN] :
        t.ok \/ t.dzi = t.tiles}

IoFaults == {"none", "write", "unlink"}

\* Names under the artworks root: a hidden one and two visible ones.
HiddenName == <<".", "h">>

Names == {HiddenName, <<"B">>, <<"a">>}

\* Slugs asked of the thumbnail endpoints: the names and one that is no entry.
ThumbSlugs == Names \cup {<<"z">>}

GenOutcomes == [ok : BOOLEAN, wrote : BOOLEAN]

(***************************************************************************)
(* Observations                                                            *)
(***************************************************************************)
NoRun == [ran |-> FALSE, stem |-> <<>>, suffix |-> <<>>, cleanup |-> FALSE,
          slug |-> <<>>, exit |-> 0]

NoResp == [op |-> "none", slug |-> <<>>, raised |-> FALSE, status |-> 0,
           ctype |-> "", err |-> "", list |-> <<>>, ret |-> None,
           attempted |-> FALSE, genOk |-> FALSE, results |-> NoRecs]

NotYet == [done |-> FALSE, slug |-> <<>>]

serverVars == <<artRoot, artDirs, artStore, resp>>

convVars == <<srcFiles, outDirs, store, run>>

slugVars == <<stemIn, slugOut>>

raceVars == <<procs, round>>

(***************************************************************************)
(* Actions                                                                 *)
(***************************************************************************)
\* The slug generator applied to the stem.
Slugify ==
    /\ ~slugOut.done
    /\ slugOut' = [done |-> TRUE, slug |-> clean_slug(stemIn)]
    /\ UNCHANGED <<hasPyvips, stemIn, serverVars, convVars, raceVars>>

\* python3 convert_to_dzi.py <path> [--cleanup]
ConvertToDzi(path, cleanup, tool, io) ==
    \E r \in {convert_to_dzi(path, cleanup, tool, io)} :
        /\ srcFiles' = r.src
        /\ outDirs' = r.out
        /\ store' = r.st
        /\ run' = [ran |-> TRUE, stem |-> path.stem, suffix |-> path.suffix,
                   cleanup |-> cleanup, slug |-> r.slug, exit |-> r.exit]
        /\ UNCHANGED <<hasPyvips, serverVars, slugVars, raceVars>>

\* GET /api/artworks
SendArtworks ==
    \E r \in {send_artworks} :
        /\ resp' = [NoResp EXCEPT !.op = "artworks", !.raised = r.raised,
                                  !.status = r.status, !.list = r.list]
        /\ UNCHANGED <<hasPyvips, artRoot, artDirs, artStore, convVars,
                       slugVars, raceVars>>

\* Whether a call of the generator reaches the resize.
Attempts(s) == ~HasCachedThumb(Entry(s)) /\ HasLevel0Tile(Entry(s))

\* GET /api/thumb/<slug>
SendThumbnail(s, gen) ==
    \E r \in {get_or_generate_thumbnail(s, gen)}, a \in {Attempts(s)} :
    \E h \in {send_thumbnail(r)} :
        /\ artDirs' = PutEntry(s, r.entry)
        /\ resp' = [NoResp EXCEPT !.op = "thumb", !.slug = s, !.ret = r.ret,
                                  !.status = h.status, !.ctype = h.ctype,
                                  !.err = h.err, !.attempted = a,
                                  !.genOk = a /\ gen.ok]
        /\ UNCHANGED <<hasPyvips, artRoot, artStore, convVars, slugVars,
                       raceVars>>

\* HEAD /api/thumb/<slug>
HeadThumbnail(s, gen) ==
    \E r \in {get_or_generate_thumbnail(s, gen)}, a \in {Attempts(s)} :
    \E h \in {do_HEAD(r)} :
        /\ artDirs' = PutEntry(s, r.entry)
        /\ resp' = [NoResp EXCEPT !.op = "head", !.slug = s, !.ret = r.ret,
                                  !.status = h.status, !.ctype = h.ctype,
                                  !.err = h.err, !.attempted = a,
                                  !.genOk = a /\ gen.ok]
        /\ UNCHANGED <<hasPyvips, artRoot, artStore, convVars, slugVars,
                       raceVars>>

\* has_thumbnail(slug, artworks_dir)
HasThumbnail(s) ==
    /\ resp' = [NoResp EXCEPT !.op = "has", !.slug = s,
                              !.ret = IF has_thumbnail(s)
                                      THEN Some(ThumbPath(s)) ELSE None]
    /\ UNCHANGED <<hasPyvips, artRoot, artDirs, artStore, convVars,
                   slugVars, raceVars>>

\* update_metadata_with_thumbnails(artworks_dir): {} when the metadata file
\* is absent or does not load, AttributeError when it is no mapping, and the
\* generator on every slug of the mapping otherwise.
UpdateMetadataWithThumbnails(gens) ==
    LET keys == IF artRoot = "dir" /\ artStore.kind = "object"
                THEN DOMAIN artStore.recs ELSE {}
        empty == artRoot # "dir" \/ artStore.kind = "absent"
                     \/ LoadRaises(artStore)
    IN  \E call \in {[s \in keys |-> get_or_generate_thumbnail(s, gens[s])]} :
        /\ artDirs' = [n \in DOMAIN artDirs |->
                          IF n \in keys THEN call[n].entry ELSE artDirs[n]]
        /\ resp' = [NoResp EXCEPT !.op = "bulk",
                       !.raised = ~empty /\ artStore.kind # "object",
                       !.results = [s \in keys |-> call[s].ret.some]]
        /\ UNCHANGED <<hasPyvips, artRoot, artStore, convVars, slugVars,
                       raceVars>>

\* The slugs update_metadata_with_thumbnails walks.
BulkKeys ==
    IF artRoot = "dir" /\ artStore.kind = "object"
    THEN DOMAIN artStore.recs ELSE {}

\* save_artwork_metadata(slug, original_name, dzi_file) called on its own.
SaveArtworkMetadata(original_name) ==
    \E s \in {clean_slug(original_name)} :
    \E r \in {save_artwork_metadata(store, s, original_name, TRUE)} :
        /\ store' = r.file
        /\ run' = [NoRun EXCEPT !.ran = TRUE, !.stem = original_name,
                                !.slug = s,
                                !.exit = IF r.raised THEN 1 ELSE 0]
        /\ UNCHANGED <<hasPyvips, srcFiles, outDirs, serverVars, slugVars,
                       raceVars>>

(***************************************************************************)
(* Two converter runs inside save_artwork_metadata at the same time.  The  *)
(* load and the write of one call are two steps; nothing orders the steps  *)
(* of the two calls.                                                       *)
(***************************************************************************)
\* Pairs of concurrent calls started one after the other.
MaxRounds == 2

Procs == {"p1", "p2"}

IdleProc == [pc |-> "idle", stem |-> <<>>, slug |-> <<>>,
             md |-> [t |-> "dict", m |-> NoRecs], readAt |-> 0, wroteAt |-> 0]

Written == Cardinality({q \in Procs : procs[q].pc = "done"})

\* Lines 142-147: the call of process p loads the store.
Load(p, original_name) ==
    /\ procs[p].pc = "idle"
    /\ procs' = [procs EXCEPT ![p] =
                    [pc |-> "loaded", stem |-> original_name,
                     slug |-> clean_slug(original_name),
                     md |-> load_metadata(store),
                     readAt |-> Written, wroteAt |-> 0]]
    /\ UNCHANGED <<hasPyvips, store, round, srcFiles, outDirs, run,
                   serverVars, slugVars>>

\* Lines 149-155: it adds its record to what it loaded and writes the file.
Dump(p) ==
    /\ procs[p].pc = "loaded"
    /\ store' = dump_metadata(store,
                    merge_record(procs[p].md, procs[p].slug, procs[p].stem),
                    TRUE).file
    /\ procs' = [procs EXCEPT ![p].pc = "done", ![p].wroteAt = Written + 1]
    /\ UNCHANGED <<hasPyvips, round, srcFiles, outDirs, run, serverVars,
                   slugVars>>

\* Both calls have returned; the operator starts another pair.
NextPair ==
    /\ \A p \in Procs : procs[p].pc = "done"
    /\ round < MaxRounds
    /\ round' = round + 1
    /\ procs' = [p \in Procs |-> IdleProc]
    /\ UNCHANGED <<hasPyvips, store, srcFiles, outDirs, run, serverVars,
                   slugVars>>

(***************************************************************************)
(* Initial states and specifications                                       *)
(***************************************************************************)
ConvFresh ==
    /\ srcFiles = SrcPaths
    /\ outDirs = [s \in ConvSlugs |-> AbsentDir]
    /\ store = AbsentFile
    /\ run = NoRun

ServerEmpty ==
    /\ artRoot = "absent"
    /\ artDirs = [n \in Names |-> AbsentEntry]
    /\ artStore = AbsentFile
    /\ resp = NoResp

SlugIdle == stemIn = <<>> /\ slugOut = NotYet

RaceIdle == procs = [p \in Procs |-> IdleProc] /\ round = 0

\* --- the slug generator on bounded stems
InitSlug ==
    /\ hasPyvips = TRUE
    /\ ConvFresh /\ ServerEmpty /\ RaceIdle
    /\ stemIn \in StemInputs
    /\ slugOut = NotYet

NextSlug == Slugify

SpecSlug == InitSlug /\ [][NextSlug]_vars

\* --- the converter on source files, from a fresh script directory whose
\* metadata file is absent, corrupt or a JSON list, and where one slug's
\* directory name may be taken by a regular file
InitStores == {AbsentFile, [kind |-> "invalid", recs |-> NoRecs],
               [kind |-> "list", recs |-> NoRecs]}

InitConv ==
    /\ hasPyvips \in BOOLEAN
    /\ srcFiles = SrcPaths
    /\ \E taken \in SUBSET {FallbackSlug} :
          outDirs = [s \in ConvSlugs |->
                        IF s \in taken THEN [AbsentDir EXCEPT !.kind = "file"]
                        ELSE AbsentDir]
    /\ store \in InitStores
    /\ run = NoRun
    /\ ServerEmpty /\ SlugIdle /\ RaceIdle

NextConv ==
    \E path \in SrcPaths, cleanup \in BOOLEAN, tool \in ToolOutcomes,
       io \in IoFaults :
        ConvertToDzi(path, cleanup, tool, io)

SpecConv == InitConv /\ [][NextConv]_vars

\* --- save_artwork_metadata on every shape of prior metadata file
OtherName == <<"o","l","d">>

ValueShapes(n) ==
    {artwork_record(n, <<"M","y"," ">> \o n),
     [t |-> "dict", fields |-> [dzi_path |-> RelDziPath(n)]],
     [t |-> "other", fields |-> NoRecs]}

\* The JSON objects over the keys of K, each key absent or of some shape.
ObjectStores(K) ==
    UNION {{[kind |-> "object", recs |-> f] :
               f \in {g \in [D -> UNION {ValueShapes(n) : n \in D}] :
                         \A n \in D : g[n] \in ValueShapes(n)}} :
           D \in SUBSET K}

StoreShapes(K) ==
    {[kind |-> k, recs |-> NoRecs] :
        k \in {"absent", "unreadable", "invalid", "list", "scalar"}}
    \cup ObjectStores(K)

InitMeta ==
    /\ hasPyvips = TRUE
    /\ srcFiles = SrcPaths
    /\ outDirs = [s \in ConvSlugs |-> AbsentDir]
    /\ store \in StoreShapes(ConvSlugs \cup {OtherName})
    /\ run = NoRun
    /\ ServerEmpty /\ SlugIdle /\ RaceIdle

NextMeta == \E original_name \in Stems : SaveArtworkMetadata(original_name)

SpecMeta == InitMeta /\ [][NextMeta]_vars

\* --- two concurrent metadata updates
InitRace ==
    /\ hasPyvips = TRUE
    /\ ConvFresh /\ ServerEmpty /\ SlugIdle /\ RaceIdle

NextRace ==
    \/ \E p \in Procs, original_name \in Stems : Load(p, original_name)
    \/ \E p \in Procs : Dump(p)
    \/ NextPair

SpecRace == InitRace /\ [][NextRace]_vars

\* --- the server over every modelled content of the artworks root
EntryConfigs ==
    {AbsentEntry, [AbsentEntry EXCEPT !.kind = "file"],
     [AbsentEntry EXCEPT !.kind = "dir"]}
    \cup {[kind |-> "dir", dzi |-> TRUE, tile |-> t, thumb |-> 0] :
             t \in {"nodir", "none", "jpg", "jpeg"}}

HiddenConfigs ==
    {AbsentEntry,
     [kind |-> "dir", dzi |-> TRUE, tile |-> "jpg", thumb |-> 0]}

\* Metadata files of the artworks root: every shape that is no JSON object,
\* every shape of a record for "a", and records for both visible names.
ServerStores ==
    StoreShapes({<<"a">>})
    \cup {[kind |-> "object",
           recs |-> [n \in Names \ {HiddenName} |->
                        artwork_record(n, <<"M","y"," ">> \o n)]]}

InitServer ==
    /\ hasPyvips = TRUE
    /\ ConvFresh /\ SlugIdle /\ RaceIdle
    /\ resp = NoResp
    /\ \/ /\ artRoot = "dir"
          /\ artDirs \in {f \in [Names -> EntryConfigs \cup HiddenConfigs] :
                             f[HiddenName] \in HiddenConfigs}
          /\ artStore \in ServerStores
       \/ /\ artRoot \in {"absent", "file"}
          /\ artDirs = [n \in Names |-> AbsentEntry]
          /\ artStore = AbsentFile

NextServer ==
    \/ SendArtworks
    \/ \E s \in ThumbSlugs, gen \in GenOutcomes : SendThumbnail(s, gen)
    \/ \E s \in ThumbSlugs, gen \in GenOutcomes : HeadThumbnail(s, gen)
    \/ \E s \in ThumbSlugs : HasThumbnail(s)
    \/ \E gens \in [BulkKeys -> GenOutcomes] : UpdateMetadataWithThumbnails(gens)

SpecServer == InitServer /\ [][NextServer]_vars

\* --- the installation: converter runs and server requests in any order,
\* from a script directory the converter has not written yet
InitArtworks ==
    {[n \in Names |-> IF n = <<"a">> THEN e ELSE AbsentEntry] :
        e \in {AbsentEntry,
               [kind |-> "dir", dzi |-> TRUE, tile |-> "none", thumb |-> 0],
               [kind |-> "dir", dzi |-> TRUE, tile |-> "jpg", thumb |-> 0]}}

Init ==
    /\ hasPyvips \in BOOLEAN
    /\ ConvFresh /\ SlugIdle /\ RaceIdle
    /\ resp = NoResp
    /\ \/ /\ artRoot = "absent"
          /\ artDirs = [n \in Names |-> AbsentEntry]
          /\ artStore = AbsentFile
       \/ /\ artRoot = "dir"
          /\ artDirs \in InitArtworks
          /\ artStore \in {AbsentFile,
                           [kind |-> "object",
                            recs |-> With(NoRecs, <<"a">>,
                                          artwork_record(<<"a">>, <<"A">>))]}

\* The runs and requests of the installation: two sources of one slug, so
\* that an artwork is converted again, and the slug "a" beside an unknown one.
InstallPaths == {p \in SrcPaths : clean_slug(p.stem) = <<"a">>}

InstallSlugs == {<<"a">>, <<"z">>}

Next ==
    \/ \E path \in InstallPaths, tool \in ToolOutcomes :
          ConvertToDzi(path, FALSE, tool, "none")
    \/ SendArtworks
    \/ \E s \in InstallSlugs, gen \in GenOutcomes : SendThumbnail(s, gen)
    \/ \E s \in InstallSlugs, gen \in GenOutcomes : HeadThumbnail(s, gen)
    \/ \E s \in InstallSlugs : HasThumbnail(s)
    \/ \E gens \in [BulkKeys -> GenOutcomes] : UpdateMetadataWithThumbnails(gens)

Spec == Init /\ [][Next]_vars

(***************************************************************************)
(* Properties                                                              *)
(***************************************************************************)
\* Whether the last listing holds an entry of slug n.
Listed(n) == \E i \in DOMAIN resp.list : resp.list[i].slug = n

\* C1: after a converter run that succeeded for a source of slug s, the next
\* GET /api/artworks of the same installation returns an entry of slug s
\* whose name is the stem the converter recorded.
C1_ConvertedArtworkIsListed ==
    [][(/\ run.ran /\ run.exit = 0
        /\ UNCHANGED convVars
        /\ resp'.op = "artworks")
       => \E i \in DOMAIN resp'.list :
             /\ resp'.list[i].slug = run.slug
             /\ resp'.list[i].name = run.stem]_vars

\* The fallback part of C2: the name is the slug when the metadata file is
\* absent, unreadable, no JSON, or holds no record for the slug.
NameFallsBack ==
    \A i \in DOMAIN resp.list :
        (\/ artStore.kind \in {"absent", "unreadable", "invalid"}
         \/ /\ artStore.kind = "object"
            /\ resp.list[i].slug \notin DOMAIN artStore.recs)
        => resp.list[i].name = resp.list[i].slug

SortedBySlug ==
    \A i \in DOMAIN resp.list :
        i < Len(resp.list) => StrLess(resp.list[i].slug, resp.list[i + 1].slug)

\* C3 as stated: the array holds one entry per directory that holds its
\* .dzi, in lexicographic order of slug, and each path is "<slug>/<slug>.dzi".
C3_OneSortedEntryWithRelativePath ==
    (resp.op = "artworks" /\ ~resp.raised) =>
        /\ \A n \in Names :
              (artRoot = "dir" /\ artDirs[n].kind = "dir" /\ artDirs[n].dzi)
              => Cardinality({i \in DOMAIN resp.list :
                                 resp.list[i].slug = n}) = 1
        /\ SortedBySlug
        /\ \A i \in DOMAIN resp.list :
              resp.list[i].path = resp.list[i].slug \o <<"/">>
                                  \o resp.list[i].slug \o <<".","d","z","i">>

\* C3 as amended: the array holds one entry per visible directory that holds
\* its .dzi and no other entry, in lexicographic order of slug, and each
\* path is "Artworks/<slug>/<slug>.dzi".
C3_OneSortedEntryWithRootedPath ==
    (resp.op = "artworks" /\ ~resp.raised) =>
        /\ \A n \in Names :
              Cardinality({i \in DOMAIN resp.list : resp.list[i].slug = n})
              = IF /\ artRoot = "dir" /\ artDirs[n].kind = "dir"
                   /\ artDirs[n].dzi /\ n[1] # "."
                THEN 1 ELSE 0
        /\ \A i \in DOMAIN resp.list : resp.list[i].slug \in Names
        /\ SortedBySlug
        /\ \A i \in DOMAIN resp.list :
              resp.list[i].path =
                  <<"A","r","t","w","o","r","k","s","/">>
                  \o resp.list[i].slug \o <<"/">>
                  \o resp.list[i].slug \o <<".","d","z","i">>

\* A listing of two artworks.
C3_Witness ==
    /\ resp.op = "artworks"
    /\ Len(resp.list) = 2
    /\ resp.list[1].slug = <<"B">> /\ resp.list[2].slug = <<"a">>

\* C4: whenever a converter run reports success, <slug>.dzi and <slug>_files
\* both exist under the slug's directory, with either tiler (the library or
\* the command line), also when the tiler returned without an error and
\* left an output out.  (The converter copies nothing: no staged copy is
\* there to remain.)
C4_SuccessMeansBothOutputs ==
    (run.ran /\ run.exit = 0) =>
        /\ outDirs[run.slug].kind = "dir"
        /\ outDirs[run.slug].dzi
        /\ outDirs[run.slug].tiles

C6_ThumbnailKeptAndReturned ==
    [][\A n \in Names :
          (artRoot = "dir" /\ artDirs[n].thumb > 0) =>
              /\ artRoot' = "dir"
              /\ artDirs'[n].kind = "dir"
              /\ artDirs'[n].thumb = artDirs[n].thumb
              /\ (/\ resp' # resp
                  /\ resp'.op \in {"thumb", "head"}
                  /\ resp'.slug = n)
                 => resp'.ret = [some |-> TRUE, path |-> ThumbPath(n)]]_vars

\* A thumbnail request answered from the file on disk after the slug was
\* converted.
C6_Witness ==
    /\ run.ran /\ run.exit = 0 /\ run.slug = <<"a">>
    /\ resp.op = "thumb" /\ resp.slug = <<"a">>
    /\ ~resp.attempted /\ resp.ret.some
    /\ artDirs[<<"a">>].thumb > 0

\* The answer of GET /api/thumb/<slug> when no thumbnail is available.
Is404NotAvailable ==
    /\ ~resp.ret.some
    /\ resp.status = 404
    /\ resp.ctype = "application/json"
    /\ resp.err = "thumbnail not available"

\* C7: for a slug without a level-0 tile the generator returns None and
\* GET /api/thumb/<slug> answers 404 with {"error": "thumbnail not
\* available"}; a resize that fails gives None and 404 as well, and no
\* exception reaches the handler.
C7_NoTileOrFailedResizeIs404 ==
    resp.op = "thumb" =>
        /\ ~resp.raised
        /\ (\/ artRoot # "dir"
            \/ resp.slug \notin Names
            \/ artDirs[resp.slug].kind # "dir"
            \/ artDirs[resp.slug].tile \notin {"jpg", "jpeg"})
           => Is404NotAvailable
        /\ (resp.attempted /\ ~resp.genOk) => Is404NotAvailable

\* A 404 for an artwork whose level-0 directory holds no 0_0 tile.
C7_Witness ==
    /\ resp.op = "thumb" /\ resp.slug = <<"a">>
    /\ artDirs[<<"a">>].kind = "dir" /\ artDirs[<<"a">>].dzi
    /\ artDirs[<<"a">>].tile = "none"
    /\ resp.status = 404

\* C8: whatever the metadata file was (absent, unreadable, no JSON, JSON of
\* any shape, a mapping), save_artwork_metadata for slug x does not fail the
\* conversion and the file then holds a record for x with the written
\* original_name and dzi_path; an unreadable or corrupt file counts as
\* empty, and a mapping keeps the records of the other slugs.
C8_SaveSucceedsOnAnyPriorStore ==
    [][run'.ran =>
          /\ run'.exit = 0
          /\ store'.kind = "object"
          /\ run'.slug \in DOMAIN store'.recs
          /\ store'.recs[run'.slug].fields.original_name = run'.stem
          /\ store'.recs[run'.slug].fields.dzi_path
                 = run'.slug \o <<"/">> \o run'.slug \o <<".","d","z","i">>
          /\ store.kind \in {"absent", "unreadable", "invalid"}
                 => DOMAIN store'.recs = {run'.slug}
          /\ store.kind = "object"
                 => \A k \in DOMAIN store.recs \ {run'.slug} :
                       k \in DOMAIN store'.recs
                       /\ store'.recs[k] = store.recs[k]]_vars

LowerAlnum == Range(AsciiLower) \cup Range(AsciiDigit)

\* s is one or more non-empty groups of characters of `allowed`, separated
\* by single hyphens: ^[allowed]+(-[allowed]+)*$
SlugShape(s, allowed) ==
    /\ s # <<>>
    /\ \A i \in DOMAIN s : s[i] \in allowed \cup {"-"}
    /\ s[1] # "-" /\ s[Len(s)] # "-"
    /\ \A i \in DOMAIN s : i < Len(s) => ~(s[i] = "-" /\ s[i + 1] = "-")

SlugExamples ==
    /\ stemIn = QuestionMarks => slugOut.slug = <<"a","r","t","w","o","r","k">>
    /\ stemIn = MyGreatPainting =>
           slugOut.slug = <<"m","y","-","g","r","e","a","t","-",
                            "p","a","i","n","t","i","n","g">>

\* C9 as stated: the slug of every stem matches ^[a-z0-9]+(-[a-z0-9]+)*$ or
\* is "artwork" (so it holds no underscore, whitespace, uppercase letter or
\* leading, trailing or doubled hyphen); "???" gives "artwork" and
\* "My Great Painting!" gives "my-great-painting".
C9_SlugMatchesAlnumPattern ==
    slugOut.done =>
        /\ \/ SlugShape(slugOut.slug, LowerAlnum)
           \/ slugOut.slug = <<"a","r","t","w","o","r","k">>
        /\ SlugExamples

\* C9 as amended: the slug of every stem is non-empty and holds no
\* whitespace and no leading, trailing or doubled hyphen; the slug of a stem
\* of ASCII characters matches ^[a-z0-9_]+(-[a-z0-9_]+)*$ (underscores are
\* kept) or is "artwork"; the two examples hold.
C9_SlugMatchesWordPattern ==
    slugOut.done =>
        /\ SlugShape(slugOut.slug, Range(slugOut.slug) \ {"-", " "})
        /\ (\A i \in DOMAIN stemIn : stemIn[i] \notin {"U+00C9", "U+00E9"})
           => \/ SlugShape(slugOut.slug, LowerAlnum \cup {"_"})
              \/ slugOut.slug = <<"a","r","t","w","o","r","k">>
        /\ SlugExamples

\* A slug with an underscore and a hyphen in it.
C9_Witness ==
    /\ slugOut.done
    /\ "_" \in Range(slugOut.slug)
    /\ "-" \in Range(slugOut.slug)

\* The two calls of a pair, in the order of their writes.
FirstWriter == CHOOSE p \in Procs : procs[p].wroteAt = 1

LastWriter == CHOOSE p \in Procs : procs[p].wroteAt = 2

BothWrote ==
    /\ \A p \in Procs : procs[p].pc = "done"
    /\ procs[FirstWriter].slug # procs[LastWriter].slug

\* Both calls loaded the file before either wrote it.
Interleaved == BothWrote /\ \A p \in Procs : procs[p].readAt = 0

\* The second call loaded the file after the first had written it.
Sequential == BothWrote /\ procs[LastWriter].readAt = 1

RecordOf(p) == artwork_record(procs[p].slug, procs[p].stem)

HoldsRecordOf(p) ==
    /\ store.kind = "object"
    /\ procs[p].slug \in DOMAIN store.recs
    /\ store.recs[procs[p].slug] = RecordOf(p)

LastWriterWins ==
    store = [kind |-> "object",
             recs |-> With(procs[LastWriter].md.m, procs[LastWriter].slug,
                           RecordOf(LastWriter))]

\* C10 as stated: when both runs load the store before either writes, the
\* final store is what the last writer loaded plus its own record, and the
\* first writer's record is absent; when they run one after the other, both
\* records are present.
C10_FirstWritersRecordAbsent ==
    /\ Interleaved => (LastWriterWins /\ ~HoldsRecordOf(FirstWriter))
    /\ Sequential => (HoldsRecordOf(FirstWriter) /\ HoldsRecordOf(LastWriter))

\* C10 as amended: when both runs load the store before either writes, the
\* final store is what the last writer loaded plus its own record, so the
\* first writer's slug holds only what the last writer had loaded for it
\* (nothing when that snapshot had no record of the slug); when they run one
\* after the other, both records are present.
C10_FirstWritersUpdateLost ==
    /\ Interleaved =>
          /\ LastWriterWins
          /\ LET s == procs[FirstWriter].slug
                 snapshot == procs[LastWriter].md.m
             IN  IF s \in DOMAIN snapshot
                 THEN s \in DOMAIN store.recs /\ store.recs[s] = snapshot[s]
                 ELSE s \notin DOMAIN store.recs
    /\ Sequential => (HoldsRecordOf(FirstWriter) /\ HoldsRecordOf(LastWriter))

\* A lost update: both loaded first, and the first writer's slug is gone.
C10_Witness ==
    /\ Interleaved
    /\ procs[FirstWriter].slug \notin DOMAIN store.recs
    /\ HoldsRecordOf(LastWriter)

=============================================================================
